---- MODULE Spec2Model ----
\* Model of BatchPitNorm1d (src/bpitnorm/modules/BatchPitNormalization.py):
\* the bounded sample buffer (values, size), its fill/replacement policy,
\* the part of forward that decides whether fill runs, whether the call is
\* rejected, and which reference slice is handed to the CDF construction,
\* the bandwidth / CDF / back-transformation pipeline (by classes of values),
\* the constructor's preconditions and the module's persistent state.
EXTENDS Integers, Sequences, FiniteSets, TLC

\* ---------------------------------------------------------------- bounds
\* num_pit_samples ranges over 1..MaxCap
MaxCap == 2
\* take_num_samples_when_full ranges over 0..MaxTake
MaxTake == 2
\* a batch passed to fill has 0..MaxBatch rows
MaxBatch == 3
\* a batch passed to forward has 0..MaxForward rows
MaxForward == 2
\* num_features of the instances whose calls are modelled
NumFeatures == 2

\* the "unset" sentinel the buffer is filled with at construction
NaN == 0

VARIABLES
  num_features,                \* constructor argument
  normal_backtransform,        \* constructor argument
  constructed,                 \* __init__ has returned an instance
  num_pit_samples,             \* capacity (constructor argument)
  take_num_samples_when_full,  \* replacement batch size (constructor argument)
  trainable_bandwidths,        \* constructor argument
  training,                    \* nn.Module mode flag
  size,                        \* self.size
  values,                      \* the cdf_data buffer, slot i of the code is values[i+1]
  last,                        \* record of the most recent call (observation only);
                               \* its data is the batch the body of fill worked on
  offered,                     \* rows offered to fill so far, while they fit the capacity
  offeredTotal                 \* number of rows offered so far, capped at capacity + 1

vars == <<num_features, normal_backtransform, constructed,
          num_pit_samples, take_num_samples_when_full, trainable_bandwidths,
          training, size, values, last, offered, offeredTotal>>

\* ---------------------------------------------------------------- helpers
Min(a, b) == IF a <= b THEN a ELSE b

Range(s) == {s[i] : i \in DOMAIN s}

\* The finite values a row may carry. The buffer logic only copies rows, so
\* two values are enough to tell one row from another.
FeatureValues == {1, 2}

\* the rows a batch may hold: every feature carries the same finite value
DataRows == {[f \in 1..num_features |-> v] : v \in FeatureValues}

\* the batches a caller may pass: n x num_features with 0 <= n <= MaxBatch
Batches == UNION {[1..n -> DataRows] : n \in 0..MaxBatch}

\* the batches a caller may pass to forward
ForwardBatches == UNION {[1..n -> DataRows] : n \in 0..MaxForward}

\* fill(input=empty(size=(num_pit_samples, num_features)), value=nan)
UnsetValues(cap) == [i \in 1..cap |-> [f \in 1..num_features |-> NaN]]

\* Python slicing t[a:b] of a tensor with len rows: the number of rows selected
SliceLen(len, a, b) ==
  LET lo == Min(a, len)
      hi == Min(b, len)
  IN IF hi > lo THEN hi - lo ELSE 0

\* Python slicing data[a:b]
Slice(data, a, b) ==
  LET lo == Min(a, Len(data))
  IN [i \in 1..SliceLen(Len(data), a, b) |-> data[lo + i]]

\* torch.randperm(n): the permutations of 0..n-1
Randperm(n) ==
  {p \in [1..n -> 0..(n - 1)] : \A i, j \in 1..n : p[i] = p[j] => i = j}

\* self.num_pit_samples - self.size
capacity_left(sz) == num_pit_samples - sz

\* self.size == self.num_pit_samples
is_full(sz) == sz = num_pit_samples

\* the outcome of one call of fill: the buffer it leaves, the exception it
\* raised (or "none"), the branches it took, the slots the replacement wrote
\* and the batch size seen by the call that found the buffer full (-1: none)
Res(vals, sz, err, path, slots, fullN) ==
  [values |-> vals, size |-> sz, err |-> err, path |-> path,
   slots |-> slots, fullN |-> fullN]

\* self.values[a:b] = rows : shapes must agree (a single row broadcasts)
SliceAssignOk(vals, a, b, rows) ==
  \/ Len(rows) = SliceLen(Len(vals), a, b)
  \/ Len(rows) = 1

SliceAssign(vals, a, b, rows) ==
  [i \in 1..Len(vals) |->
     IF a < i /\ i <= Min(b, Len(vals))
     THEN rows[IF Len(rows) = 1 THEN 1 ELSE i - a]
     ELSE vals[i]]

\* ---------------------------------------------------------------- fill
\* faulty variant: the assertion of fill is missing
TrainingAssertOff(tr) == TRUE

\* assert self.training, 'Must be in training mode to allow filling.'
TrainingAssert(tr) == tr

\* faulty variant: the full take writes at offset 0 instead of offset size
FullTakeAtZero(vals, sz, data) ==
  LET batch_size == Len(data)
      fullN == IF is_full(sz) THEN batch_size ELSE -1
  IN IF SliceAssignOk(vals, 0, batch_size, data)
     THEN Res(SliceAssign(vals, 0, batch_size, data), sz + batch_size,
              "none", <<"take">>, {}, fullN)
     ELSE Res(vals, sz, "RuntimeError", <<"take">>, {}, fullN)

\* faulty variant: the full take stores the batch and leaves size as it was
FullTakeKeepsSize(vals, sz, data) ==
  LET batch_size == Len(data)
      fullN == IF is_full(sz) THEN batch_size ELSE -1
  IN IF SliceAssignOk(vals, sz, sz + batch_size, data)
     THEN Res(SliceAssign(vals, sz, sz + batch_size, data), sz,
              "none", <<"take">>, {}, fullN)
     ELSE Res(vals, sz, "RuntimeError", <<"take">>, {}, fullN)

\* lines 64-67, the full take: the whole batch goes to offset size
FullTake(vals, sz, data) ==
  LET batch_size == Len(data)
      fullN == IF is_full(sz) THEN batch_size ELSE -1
  IN IF SliceAssignOk(vals, sz, sz + batch_size, data)
     THEN Res(SliceAssign(vals, sz, sz + batch_size, data), sz + batch_size,
              "none", <<"take">>, {}, fullN)
     ELSE Res(vals, sz, "RuntimeError", <<"take">>, {}, fullN)

\* faulty variant: the partial take adds the whole batch size to size
PartialTakeOvershoot(vals, sz, data) ==
  LET cap_left == capacity_left(sz)
      head == Slice(data, 0, cap_left)
  IN IF SliceAssignOk(vals, sz, num_pit_samples, head)
     THEN Res(SliceAssign(vals, sz, num_pit_samples, head), sz + Len(data),
              "none", <<"partial">>, {}, -1)
     ELSE Res(vals, sz, "RuntimeError", <<"partial">>, {}, -1)

\* faulty variant: the partial take stores the rows and leaves size as it was
PartialTakeKeepsSize(vals, sz, data) ==
  LET cap_left == capacity_left(sz)
      head == Slice(data, 0, cap_left)
  IN IF SliceAssignOk(vals, sz, num_pit_samples, head)
     THEN Res(SliceAssign(vals, sz, num_pit_samples, head), sz,
              "none", <<"partial">>, {}, -1)
     ELSE Res(vals, sz, "RuntimeError", <<"partial">>, {}, -1)

\* lines 70-71, the partial take: the first cap_left rows fill the tail
PartialTake(vals, sz, data) ==
  LET cap_left == capacity_left(sz)
      head == Slice(data, 0, cap_left)
  IN IF SliceAssignOk(vals, sz, num_pit_samples, head)
     THEN Res(SliceAssign(vals, sz, num_pit_samples, head), sz + cap_left,
              "none", <<"partial">>, {}, -1)
     ELSE Res(vals, sz, "RuntimeError", <<"partial">>, {}, -1)

\* line 78: torch.randperm(n=min(batch_size, take))
UseBatchIndexes(batch_size, take) == Randperm(Min(batch_size, take))

\* line 79: torch.randperm(n=num_pit_samples)[0:min(batch_size, take)]
UseValuesIndexes(batch_size, take) ==
  {Slice(p, 0, Min(batch_size, take)) : p \in Randperm(num_pit_samples)}

\* faulty variant: the replacement writes the first feature of the selected
\* row only and keeps the other features of the slot
IndexPutMixed(vals, sz, data, vi, bi) ==
  LET src == [j \in 1..Len(bi) |-> data[bi[j] + 1]]
      ok == Len(src) = Len(vi) \/ Len(src) = 1
      at(i) == CHOOSE j \in 1..Len(vi) : vi[j] = i - 1
  IN IF ok
     THEN Res([i \in 1..Len(vals) |->
                 IF \E j \in 1..Len(vi) : vi[j] = i - 1
                 THEN [f \in DOMAIN vals[i] |->
                         IF f = 1
                         THEN src[IF Len(src) = 1 THEN 1 ELSE at(i)][f]
                         ELSE vals[i][f]]
                 ELSE vals[i]],
              sz, "none", <<"full">>, {vi[j] + 1 : j \in 1..Len(vi)}, Len(data))
     ELSE Res(vals, sz, "RuntimeError", <<"full">>, {}, Len(data))

\* line 80: self.values[vi] = data[bi]; the selected rows must match the
\* indexed slots in number (a single row broadcasts), else index_put raises
IndexPut(vals, sz, data, vi, bi) ==
  LET src == [j \in 1..Len(bi) |-> data[bi[j] + 1]]
      ok == Len(src) = Len(vi) \/ Len(src) = 1
      at(i) == CHOOSE j \in 1..Len(vi) : vi[j] = i - 1
  IN IF ok
     THEN Res([i \in 1..Len(vals) |->
                 IF \E j \in 1..Len(vi) : vi[j] = i - 1
                 THEN src[IF Len(src) = 1 THEN 1 ELSE at(i)]
                 ELSE vals[i]],
              sz, "none", <<"full">>, {vi[j] + 1 : j \in 1..Len(vi)}, Len(data))
     ELSE Res(vals, sz, "RuntimeError", <<"full">>, {}, Len(data))

\* lines 78-80 for a given replacement batch size
ReplaceWith(vals, sz, data, take) ==
  {IndexPut(vals, sz, data, vi, bi) :
     vi \in UseValuesIndexes(Len(data), take),
     bi \in UseBatchIndexes(Len(data), take)}

\* faulty variant: a full buffer takes from the whole batch, whatever
\* take_num_samples_when_full says
ReplaceWholeBatch(vals, sz, data) == ReplaceWith(vals, sz, data, Len(data))

\* lines 74-80, the buffer is full
Replace(vals, sz, data) ==
  IF take_num_samples_when_full = 0
  THEN {Res(vals, sz, "none", <<"full">>, {}, Len(data))}
  ELSE ReplaceWith(vals, sz, data, take_num_samples_when_full)

\* lines 61-82, the body of fill after its assertion; the set of outcomes the
\* random draws allow
RECURSIVE FillOutcomes(_, _, _)
FillOutcomes(vals, sz, data) ==
  LET batch_size == Len(data)
      cap_left == capacity_left(sz)
  IN IF cap_left >= batch_size
     THEN {FullTake(vals, sz, data)}
     ELSE IF cap_left > 0
     THEN LET p == PartialTake(vals, sz, data)
          IN IF p.err # "none"
             THEN {p}
             ELSE {[r EXCEPT !.path = p.path \o r.path] :
                     r \in FillOutcomes(p.values, p.size,
                                        Slice(data, cap_left, batch_size))}
     ELSE Replace(vals, sz, data)

\* a call of fill: lines 59-82
FillCall(tr, vals, sz, data) ==
  IF TrainingAssert(tr)
  THEN FillOutcomes(vals, sz, data)
  ELSE {Res(vals, sz, "AssertionError", <<>>, {}, -1)}

\* ---------------------------------------------------------------- forward
\* faulty variant: the evaluation-mode assertion accepts an empty buffer
EvalAssertLax(sz) == sz >= 0

\* assert self.size > 0, 'Cannot compute forward pass without sample ...'
EvalAssert(sz) == sz > 0

\* faulty variant: forward fills the buffer in either mode
ForwardFillAlways(tr, vals, sz, x) == FillOutcomes(vals, sz, x)

\* lines 125-128: training mode fills, evaluation mode checks the buffer
ForwardFill(tr, vals, sz, x) ==
  IF tr
  THEN FillCall(tr, vals, sz, x)
  ELSE IF EvalAssert(sz)
       THEN {Res(vals, sz, "none", <<>>, {}, -1)}
       ELSE {Res(vals, sz, "AssertionError", <<>>, {}, -1)}

\* lines 112-120 with make_cdf (100-109): the reference slice is
\* all_data[0:size]. The heuristic bandwidth takes torch.quantile of it, which
\* rejects an empty tensor before any CDF exists; with trainable bandwidths
\* the CDF is built and its evaluation divides 1.0 by num_samples.
ProcessMerged(sz) ==
  IF ~trainable_bandwidths
  THEN IF sz = 0
       THEN [cdf |-> "failed", err |-> "RuntimeError", refLen |-> sz]
       ELSE [cdf |-> "built", err |-> "none", refLen |-> sz]
  ELSE IF sz = 0
       THEN [cdf |-> "built", err |-> "ZeroDivisionError", refLen |-> sz]
       ELSE [cdf |-> "built", err |-> "none", refLen |-> sz]

\* ---------------------------------------------------------------- numerics
\* Real results are kept as classes. A bandwidth is "pos" (finite, > 0),
\* "zero" or "nan"; a CDF value is "half" (0.5), "unit" (some other finite
\* value of [0, 1]) or "nan"; an output entry is "zero" (0.0), "finite" or
\* "nan". Quantiles of integer data are exact in units of 1/4.

\* faulty variant: the buffer is read before the fill step of the call
ForwardDataStale(vals0, sz0, r, x) ==
  [all |-> Slice(vals0, 0, sz0) \o x, size |-> sz0]

\* lines 113 and 130: the buffer forward works on, read after the fill step
ForwardData(vals0, sz0, r, x) ==
  [all |-> Slice(r.values, 0, r.size) \o x, size |-> r.size]

\* line 114: data_cdf = all_data[0:size]
Reference(d) == Slice(d.all, 0, d.size)

\* line 115: data_sample = all_data[size:(size + all_data.shape[0])]
Sample(d) == Slice(d.all, d.size, d.size + Len(d.all))

\* vmap(in_dims=1): the column of one feature
Column(rows, f) == [i \in 1..Len(rows) |-> rows[i][f]]

\* the k-th smallest entry of a column, k in 1..Len(col)
Kth(col, k) ==
  CHOOSE v \in Range(col) :
    /\ Cardinality({i \in DOMAIN col : col[i] < v}) < k
    /\ k <= Cardinality({i \in DOMAIN col : col[i] <= v})

\* 4 * torch.quantile(col, q = num/4), linear interpolation at num*(m-1)/4
Quantile4(col, num) ==
  LET t == num * (Len(col) - 1)
      i == t \div 4
      r == t % 4
  IN IF r = 0
     THEN 4 * Kth(col, i + 1)
     ELSE (4 - r) * Kth(col, i + 1) + r * Kth(col, i + 2)

\* data.std(): the unbiased estimate divides by m - 1
StdClass(col) ==
  IF Len(col) = 1 THEN "nan"
  ELSE IF \A i \in DOMAIN col : col[i] = col[1] THEN "zero"
  ELSE "pos"

\* IQR = q75 - q25
IqrClass(col) ==
  IF Quantile4(col, 3) - Quantile4(col, 1) = 0 THEN "zero" ELSE "pos"

\* torch.min of two values that are never negative; NaN propagates
MinClass(a, b) ==
  IF a = "nan" \/ b = "nan" THEN "nan"
  ELSE IF a = "zero" \/ b = "zero" THEN "zero"
  ELSE "pos"

\* lines 102-108: the bandwidth make_cdf uses for a reference of m >= 1 rows
Bandwidth(col) ==
  IF ~trainable_bandwidths
  THEN MinClass(StdClass(col), IqrClass(col))
  ELSE "pos"

\* line 109: 1/m * sum(standard_normal_cdf((use_x - data) / bw)) at use_x = v
CdfAt(col, bw, v) ==
  IF bw = "nan" THEN "nan"
  ELSE IF bw = "zero"
       THEN IF \E i \in DOMAIN col : col[i] = v THEN "nan" ELSE "unit"
       ELSE IF \A i \in DOMAIN col : col[i] = v THEN "half" ELSE "unit"

\* the bandwidth of every feature for a reference of m >= 1 rows
Bandwidths(ref) == [f \in 1..num_features |-> Bandwidth(Column(ref, f))]

\* lines 132-133: the CDF values of every row of the batch, feature by feature
CdfValues(ref, smp, bws) ==
  LET cols == [f \in 1..num_features |-> Column(ref, f)]
  IN [i \in 1..Len(smp) |->
        [f \in 1..num_features |-> CdfAt(cols[f], bws[f], smp[i][f])]]

HasNan(m) == \E i \in DOMAIN m : \E f \in DOMAIN m[i] : m[i][f] = "nan"

Centered(c) == IF c = "half" THEN "zero" ELSE IF c = "unit" THEN "finite" ELSE c

\* lines 88-97: clip, erfinv, and the assertion that nothing is NaN or inf
standard_normal_ppf(m) ==
  IF HasNan(m)
  THEN [err |-> "AssertionError", out |-> <<>>]
  ELSE [err |-> "none",
        out |-> [i \in DOMAIN m |-> [f \in DOMAIN m[i] |-> Centered(m[i][f])]]]

\* lines 135-139: the output forward returns
Backtransform(m) ==
  IF normal_backtransform
  THEN standard_normal_ppf(m)
  ELSE [err |-> "none",
        out |-> [i \in DOMAIN m |-> [f \in DOMAIN m[i] |-> Centered(m[i][f])]]]

\* ---------------------------------------------------------------- observation
\* the arrival log: the rows offered to fill, kept while they fit the capacity
LogOffered(ran, data) ==
  IF ~ran
  THEN <<offered, offeredTotal>>
  ELSE IF offeredTotal + Len(data) <= num_pit_samples
       THEN <<offered \o data, offeredTotal + Len(data)>>
       ELSE <<(<<>>), num_pit_samples + 1>>

NoCall ==
  [op |-> "init", data |-> <<>>, err |-> "none", path |-> <<>>, slots |-> {},
   fullN |-> -1, cdf |-> "none", refLen |-> -1,
   rows |-> -1, ref |-> <<>>, bw |-> <<>>, out |-> <<>>]

\* ---------------------------------------------------------------- the machine
\* __init__, lines 23-45, with normal_backtransform left at its default
Init ==
  /\ num_features = NumFeatures
  /\ normal_backtransform = TRUE
  /\ constructed = TRUE
  /\ num_pit_samples \in 1..MaxCap
  /\ take_num_samples_when_full \in 0..MaxTake
  /\ trainable_bandwidths \in BOOLEAN
  /\ training = TRUE
  /\ size = 0
  /\ values = UnsetValues(num_pit_samples)
  /\ last = NoCall
  /\ offered = <<>>
  /\ offeredTotal = 0

\* a direct call fill(data)
FillWith(data) ==
    \E r \in FillCall(training, values, size, data) :
      /\ values' = r.values
      /\ size' = r.size
      /\ last' = [NoCall EXCEPT
                    !.op = "fill",
                    !.data = IF r.path = <<>> THEN <<>> ELSE data,
                    !.err = r.err, !.path = r.path,
                    !.slots = r.slots, !.fullN = r.fullN]
      /\ offered' = LogOffered(TrainingAssert(training), data)[1]
      /\ offeredTotal' = LogOffered(TrainingAssert(training), data)[2]
      /\ UNCHANGED <<num_features, normal_backtransform, constructed,
                     num_pit_samples, take_num_samples_when_full,
                     trainable_bandwidths, training>>

\* a call forward(x), lines 122-139, one step after the other: the buffer
\* step r, the merged data d, the CDF construction c on the reference ref,
\* the bandwidths bws and the transformed batch b
ForwardWith(x) ==
    \E r \in ForwardFill(training, values, size, x) :
    \E d \in {ForwardData(values, size, r, x)} :
    \E c \in {IF r.err = "none"
               THEN ProcessMerged(d.size)
               ELSE [cdf |-> "none", err |-> r.err, refLen |-> -1]} :
    \E ref \in {IF r.err = "none" THEN Reference(d) ELSE <<>>} :
    \E bws \in {IF c.err = "none" THEN Bandwidths(ref) ELSE <<>>} :
    \E b \in {IF c.err = "none"
               THEN Backtransform(CdfValues(ref, Sample(d), bws))
               ELSE [err |-> c.err, out |-> <<>>]} :
         /\ values' = r.values
         /\ size' = r.size
         /\ last' = [op |-> "forward",
                     data |-> IF r.path = <<>> THEN <<>> ELSE x, err |-> b.err,
                     path |-> r.path, slots |-> r.slots, fullN |-> r.fullN,
                     cdf |-> c.cdf, refLen |-> c.refLen,
                     rows |-> Len(x), ref |-> ref, bw |-> bws,
                     out |-> b.out]
         /\ offered' = LogOffered(r.path # <<>>, x)[1]
         /\ offeredTotal' = LogOffered(r.path # <<>>, x)[2]
         /\ UNCHANGED <<num_features, normal_backtransform, constructed,
                        num_pit_samples, take_num_samples_when_full,
                        trainable_bandwidths, training>>

Fill == constructed /\ \E data \in Batches : FillWith(data)

Forward == constructed /\ \E x \in ForwardBatches : ForwardWith(x)

\* the caller switches mode: train() / eval() of nn.Module
SetTraining ==
  /\ constructed
  /\ training' = ~training
  /\ last' = [NoCall EXCEPT !.op = "mode"]
  /\ UNCHANGED <<num_features, normal_backtransform, constructed,
                 num_pit_samples, take_num_samples_when_full,
                 trainable_bandwidths, size, values, offered, offeredTotal>>

Next == Fill \/ Forward \/ SetTraining

Spec == Init /\ [][Next]_vars

\* __init__, lines 23-45, with either setting of normal_backtransform
InitNum ==
  /\ num_features = NumFeatures
  /\ normal_backtransform \in BOOLEAN
  /\ constructed = TRUE
  /\ num_pit_samples \in 1..MaxCap
  /\ take_num_samples_when_full \in 0..MaxTake
  /\ trainable_bandwidths \in BOOLEAN
  /\ training = TRUE
  /\ size = 0
  /\ values = UnsetValues(num_pit_samples)
  /\ last = NoCall
  /\ offered = <<>>
  /\ offeredTotal = 0

SpecNum == InitNum /\ [][Next]_vars

\* ---------------------------------------------------------------- persistence
\* nn.Module.state_dict(): the parameters and the persistent buffers. Line 43
\* registers cdf_data as one; self.size (line 39) is a plain attribute and is
\* not part of it.
state_dict(vals, sz) == [cdf_data |-> vals]

\* the state is saved, an instance is constructed with the same arguments
\* (line 39 sets its size to 0, and a new module is in training mode) and
\* load_state_dict copies the saved entries into it
LoadStateDict ==
  /\ constructed
  /\ values' = state_dict(values, size).cdf_data
  /\ size' = 0
  /\ training' = TRUE
  /\ last' = [NoCall EXCEPT !.op = "restore"]
  /\ offered' = <<>>
  /\ offeredTotal' = 0
  /\ UNCHANGED <<num_features, normal_backtransform, constructed,
                 num_pit_samples, take_num_samples_when_full,
                 trainable_bandwidths>>

NextPersist == Next \/ LoadStateDict

SpecPersist == Init /\ [][NextPersist]_vars

\* ---------------------------------------------------------------- construction
\* __init__, lines 23-45: the two assertions come first, then the tensors
\* are created; torch.empty rejects a negative dimension and accepts 0
InitOutcome(nf, cap, take) ==
  IF ~(cap > 0) THEN "AssertionError"
  ELSE IF ~(take >= 0) THEN "AssertionError"
  ELSE IF nf < 0 THEN "RuntimeError"
  ELSE "none"

\* no instance exists yet
InitCtor ==
  /\ constructed = FALSE
  /\ num_features = 0
  /\ normal_backtransform = TRUE
  /\ num_pit_samples = 0
  /\ take_num_samples_when_full = 0
  /\ trainable_bandwidths = FALSE
  /\ training = TRUE
  /\ size = 0
  /\ values = <<>>
  /\ last = NoCall
  /\ offered = <<>>
  /\ offeredTotal = 0

\* BatchPitNorm1d(num_features=nf, num_pit_samples=cap,
\*                take_num_samples_when_full=take, ...)
Construct ==
  /\ ~constructed
  /\ \E nf \in (-1)..NumFeatures, cap \in (-1)..MaxCap, take \in (-1)..MaxTake,
        nb \in BOOLEAN, tb \in BOOLEAN :
       LET err == InitOutcome(nf, cap, take)
       IN IF err = "none"
          THEN /\ constructed' = TRUE
               /\ num_features' = nf
               /\ normal_backtransform' = nb
               /\ num_pit_samples' = cap
               /\ take_num_samples_when_full' = take
               /\ trainable_bandwidths' = tb
               /\ values' = [i \in 1..cap |-> [f \in 1..nf |-> NaN]]
               /\ last' = [NoCall EXCEPT !.op = "construct"]
               /\ UNCHANGED <<training, size, offered, offeredTotal>>
          ELSE /\ last' = [NoCall EXCEPT !.op = "construct", !.err = err]
               /\ UNCHANGED <<num_features, normal_backtransform, constructed,
                              num_pit_samples, take_num_samples_when_full,
                              trainable_bandwidths, training, size, values,
                              offered, offeredTotal>>

NextCtor == Construct \/ Next

SpecCtor == InitCtor /\ [][NextCtor]_vars

\* ---------------------------------------------------------------- scenario
\* one feature, capacity 100, no replacement, no back-transformation,
\* heuristic bandwidth; every row fed or transformed carries the value 5
ScenarioValues == {5}

ScenarioSizes == {1, 100}

ScenarioBatches ==
  {[i \in 1..n |-> [f \in 1..num_features |-> v]] :
     n \in ScenarioSizes, v \in ScenarioValues}

InitScenario ==
  /\ num_features = 1
  /\ normal_backtransform = FALSE
  /\ constructed = TRUE
  /\ num_pit_samples = 100
  /\ take_num_samples_when_full = 0
  /\ trainable_bandwidths = FALSE
  /\ training = TRUE
  /\ size = 0
  /\ values = UnsetValues(num_pit_samples)
  /\ last = NoCall
  /\ offered = <<>>
  /\ offeredTotal = 0

ScenarioFill == \E data \in ScenarioBatches : FillWith(data)

ScenarioForward == \E x \in ScenarioBatches : ForwardWith(x)

NextScenario == ScenarioFill \/ ScenarioForward \/ SetTraining

SpecScenario == InitScenario /\ [][NextScenario]_vars

\* ---------------------------------------------------------------- claims
IsCall(l) == l.op \in {"fill", "forward"}

\* the buffer as the call that finds it full sees it: the buffer before the
\* call, with the rows of a partial take already in the tail
BufferWhenFull(vals, sz, data) ==
  IF is_full(sz)
  THEN vals
  ELSE SliceAssign(vals, sz, num_pit_samples, Slice(data, 0, capacity_left(sz)))

\* C1: in every reachable state 0 <= size <= capacity; no call decreases
\* size; once size equals capacity no call changes it.
C1_SizeBounds ==
  /\ 0 <= size /\ size <= num_pit_samples
  /\ [][/\ 0 <= size' /\ size' <= num_pit_samples'
        /\ size <= size'
        /\ (size = num_pit_samples => size' = size)]_vars

\* a call with rows to offer was made on a buffer that was already full, and
\* it replaced rows
C1_Witness ==
  /\ IsCall(last) /\ last.path = <<"full">> /\ last.fullN > 0
  /\ last.slots # {} /\ size = num_pit_samples

\* C2: while the rows offered to fill so far number at most capacity, size
\* is their number, values[0:size] is their concatenation in arrival order,
\* and no call has taken the branch of the full buffer.
C2_ArrivalOrder ==
  offeredTotal <= num_pit_samples =>
    /\ size = offeredTotal
    /\ Len(offered) = size
    /\ \A i \in 1..size : values[i] = offered[i]
    /\ \A i \in 1..Len(last.path) : last.path[i] = "take"

\* two non-empty batches that add up to the capacity exactly
C2_Witness ==
  /\ IsCall(last) /\ last.path = <<"take">>
  /\ offeredTotal = num_pit_samples /\ size = num_pit_samples
  /\ 0 < Len(last.data) /\ Len(last.data) < size
  /\ values[1] # values[size]

\* C3: a call made when size = capacity leaves size as it is, and with
\* take_num_samples_when_full = 0 it leaves every entry of values as it is.
C3_Saturation ==
  [][(size = num_pit_samples /\ IsCall(last'))
       => /\ size' = size
          /\ (take_num_samples_when_full = 0 => values' = values)]_vars

\* fill ran on a full buffer with replacement disabled and rows to offer
C3_Witness ==
  /\ IsCall(last) /\ last.path = <<"full">> /\ last.fullN > 0
  /\ take_num_samples_when_full = 0 /\ size = num_pit_samples
  /\ \E i \in 1..Len(last.data) : \E j \in 1..num_pit_samples :
       last.data[i] # values[j]

\* C4: with take_num_samples_when_full = k > 0, a call of fill that finds the
\* buffer full and has n rows overwrites exactly min(n, k) distinct slots and
\* leaves every other slot as it was.
C4_ReplacementConservation ==
  [][(take_num_samples_when_full > 0 /\ IsCall(last') /\ last'.fullN >= 0)
       => LET before == BufferWhenFull(values, size, last'.data)
          IN /\ Cardinality(last'.slots)
                  = Min(last'.fullN, take_num_samples_when_full)
             /\ \A i \in 1..num_pit_samples :
                  i \notin last'.slots => values'[i] = before[i]]_vars

\* C5: in a replacement with n rows every row position 0..n-1 of the batch
\* can be chosen as a source, every slot 0..capacity-1 can be chosen as a
\* target, and the slots written are min(n, k) distinct ones.
C5_RowsFromWholeBatch ==
  (/\ IsCall(last) /\ take_num_samples_when_full > 0
   /\ last.fullN > 0 /\ last.err = "none")
    => /\ \A j \in 0..(last.fullN - 1) :
            \E bi \in UseBatchIndexes(last.fullN, take_num_samples_when_full) :
              j \in Range(bi)
       /\ \A t \in 0..(num_pit_samples - 1) :
            \E vi \in UseValuesIndexes(last.fullN, take_num_samples_when_full) :
              t \in Range(vi)
       /\ Cardinality(last.slots)
            = Min(last.fullN, take_num_samples_when_full)

\* C6: a call of fill with n rows and 0 < capacity - size < n stores the
\* first capacity - size rows in arrival order in the slots size..capacity-1,
\* sets size to capacity and hands the leftover rows to the policy of the
\* full buffer: nothing with take_num_samples_when_full = 0, otherwise
\* min(leftover, k) replacements with rows of the leftover.
C6_PartialThenPolicy ==
  [][(/\ IsCall(last') /\ last'.path # <<>>
      /\ 0 < capacity_left(size)
      /\ capacity_left(size) < Len(last'.data))
       => LET cl == capacity_left(size)
              leftover == Len(last'.data) - cl
          IN /\ size' = num_pit_samples
             /\ \A i \in 1..num_pit_samples :
                  i \notin last'.slots =>
                    values'[i] = IF i <= size THEN values[i]
                                 ELSE last'.data[i - size]
             /\ last'.fullN = leftover
             /\ Cardinality(last'.slots) =
                  IF take_num_samples_when_full = 0 THEN 0
                  ELSE Min(leftover, take_num_samples_when_full)
             /\ \A i \in last'.slots :
                  \E j \in (cl + 1)..Len(last'.data) :
                    values'[i] = last'.data[j]]_vars

\* C7: a forward call that builds a CDF builds it from a reference slice of
\* at least one row, in either mode and for every batch size n >= 0.
C7_ReferenceNeverEmpty ==
  (last.op = "forward" /\ last.cdf = "built") => last.refLen >= 1

\* C8: forward in evaluation mode with size = 0 raises the assertion of the
\* call boundary: no CDF is built and nothing is returned.
C8_EvalEmptyFails ==
  [][(last'.op = "forward" /\ ~training /\ size = 0)
       => (last'.err = "AssertionError" /\ last'.cdf = "none")]_vars

C8_Witness ==
  /\ last.op = "forward" /\ ~training /\ size = 0
  /\ last.err = "AssertionError"

\* C9: forward in evaluation mode leaves values and size as they are, whether
\* it succeeds or fails.
C9_EvalForwardFrame ==
  [][(last'.op = "forward" /\ ~training)
       => (values' = values /\ size' = size)]_vars

\* a successful forward in evaluation mode on a full buffer of an instance
\* with replacement enabled
C9_Witness ==
  /\ last.op = "forward" /\ ~training /\ last.err = "none"
  /\ size = num_pit_samples /\ take_num_samples_when_full > 0

\* C10: fill outside training mode raises before any write: values and size
\* stay as they are.
C10_FillNeedsTraining ==
  [][(last'.op = "fill" /\ ~training)
       => /\ last'.err = "AssertionError"
          /\ values' = values /\ size' = size]_vars

\* fill was rejected on a partially filled buffer
C10_Witness ==
  /\ last.op = "fill" /\ ~training /\ last.err = "AssertionError"
  /\ 0 < size /\ size < num_pit_samples

\* C11: in a training-mode forward the reference slice handed to the CDF
\* construction is values[0:size] of the buffer as this call's fill left it;
\* when size + n <= capacity it is the rows stored before the call followed
\* by the n rows of the batch.
C11_ReferenceAfterFill ==
  [][(last'.op = "forward" /\ training /\ last'.cdf # "none")
       => /\ last'.ref = Slice(values', 0, size')
          /\ (size + last'.rows <= num_pit_samples
                => last'.ref = Slice(values, 0, size) \o last'.data)]_vars

\* a training-mode forward whose batch joined rows stored by earlier calls,
\* and whose output was computed from the joined reference
C11_Witness ==
  /\ last.op = "forward" /\ training /\ last.path = <<"take">>
  /\ last.err = "none" /\ last.cdf = "built"
  /\ 0 < last.rows /\ last.rows < Len(last.ref)
  /\ last.ref[1] # last.ref[Len(last.ref)]

\* C12: saving the persistent state and restoring it into a newly constructed
\* instance with the same arguments yields the same size and the same
\* values[0:size] as before the save.
C12_RestoreKeepsBuffer ==
  [][last'.op = "restore"
       => /\ size' = size
          /\ Slice(values', 0, size') = Slice(values, 0, size)]_vars

\* C13: no instance exists whose capacity or whose feature count is not
\* positive: the constructor rejects such arguments.
C13_ConstructionRejects ==
  constructed => (num_pit_samples > 0 /\ num_features > 0)

\* C14: a forward call that returns hands back an output without NaN, with
\* normal_backtransform set or not.
C14_OutputFinite ==
  (last.op = "forward" /\ last.err = "none") => ~HasNan(last.out)

\* C15: in the scenario, once the buffer is full and holds only the value 5,
\* a forward of rows of value 5 returns 0.0 for each of them.
C15_ConstantScenario ==
  (/\ last.op = "forward" /\ last.rows >= 1
   /\ size = num_pit_samples
   /\ \A i \in 1..num_pit_samples : \A f \in 1..num_features :
        values[i][f] \in ScenarioValues)
    => /\ last.err = "none"
       /\ Len(last.out) = last.rows
       /\ \A i \in 1..Len(last.out) : \A f \in 1..num_features :
            last.out[i][f] = "zero"

\* C16: the bandwidth of every feature is finite and strictly positive
\* whenever the CDF is built from a reference of at least two rows.
C16_BandwidthPositive ==
  (last.op = "forward" /\ last.cdf = "built" /\ last.refLen >= 2)
    => \A f \in DOMAIN last.bw : last.bw[f] = "pos"

\* C17: buffer row i is defined in every feature if and only if i < size:
\* rows 0..size-1 hold finite values, rows size..capacity-1 the sentinel.
C17_DefinedPrefix ==
  \A i \in 1..num_pit_samples : \A f \in 1..num_features :
    (values[i][f] # NaN) <=> (i <= size)

\* a call stored rows and left others unset
C17_Witness ==
  /\ IsCall(last) /\ last.err = "none" /\ Len(last.data) > 0
  /\ 0 < size /\ size < num_pit_samples

\* C18: a call of fill returns after at most one nested call, and the nested
\* call takes the branch of the full buffer.
C18_RecursionDepth ==
  IsCall(last) =>
    /\ Len(last.path) <= 2
    /\ (Len(last.path) = 2 => last.path = <<"partial", "full">>)

\* a batch larger than the room left: partial take, then the nested call
C18_Witness ==
  /\ IsCall(last) /\ last.path = <<"partial", "full">>
  /\ last.err = "none" /\ size = num_pit_samples

\* C19: every defined buffer row is, in all features at once, a row the
\* buffer held before the call or a row of the batch the call was given.
C19_WholeRows ==
  [][\A i \in 1..size' :
       values'[i] \in {values[j] : j \in 1..size} \cup Range(last'.data)]_vars

\* a replacement wrote a row that differs from the row it left in place
C19_Witness ==
  /\ IsCall(last) /\ last.err = "none" /\ last.slots # {}
  /\ \E i \in last.slots : \E j \in 1..size :
       j \notin last.slots /\ values[i] # values[j]
====
